---- MODULE Spec2Model ----
(***************************************************************************)
(* Model of interviewer/server.py: the in-memory session store             *)
(* `conversations`, the two HTTP handlers get_question and answer, the     *)
(* per-session transcript files, and the three external adapters           *)
(* (transcription, chat completion, text-to-speech), each of which either  *)
(* returns a text or raises.                                               *)
(*                                                                         *)
(* Texts are sequences of characters so that str.strip(), "+" and          *)
(* "\n".join() are computed rather than assumed.                           *)
(***************************************************************************)
EXTENDS Integers, Sequences, FiniteSets, TLC

\* ---------------------------------------------------------------- bounds
MaxRequests == 10     \* requests handled in one run of the server
MaxFaults   == 1      \* adapter calls that raise in one run
MaxRefetch  == 1      \* question fetches that hit the qualitative branch

\* Session identifiers the clients use (session_id: str).
SessionIds == {"s1", "s2"}

\* ---------------------------------------------------------------- texts
WS == {" ", "\n"}

RECURSIVE LStrip(_)
LStrip(t) == IF t # <<>> /\ Head(t) \in WS THEN LStrip(Tail(t)) ELSE t

RECURSIVE RStrip(_)
RStrip(t) ==
  IF t # <<>> /\ t[Len(t)] \in WS THEN RStrip(SubSeq(t, 1, Len(t) - 1)) ELSE t

\* str.strip()
Strip(t) == RStrip(LStrip(t))

\* sep.join(list)
RECURSIVE Join(_, _)
Join(sep, list) ==
  IF list = <<>> THEN <<>>
  ELSE IF Len(list) = 1 THEN list[1]
  ELSE list[1] \o sep \o Join(sep, Tail(list))

MATH_WAIT_SECONDS == 10

\* The triple-quoted constants start and end with a newline.
INTRO_TEXT == <<"\n", "I", "\n">>
MATH_PROBLEM_TEXT == <<"\n", "M", "\n">>
MATH_FOLLOWUP_QUESTIONS == << <<"F1">>, <<"F2">> >>
CLOSING_MESSAGE == <<"\n", "C", "\n">>
SYSTEM_PROMPT == <<"S">>
FIRST_QUAL_PROMPT == <<"\n", "P1", "\n">>
FOLLOWUP_PROMPT == <<"\n", "P2", "\n">>
\* the literal first case question of the intro branch
FIRST_QUESTION == <<"B">>

\* ---------------------------------------------------------------- adapters
\* An adapter call returns a text or raises.
Raise == <<"<raise>">>
\* what whisper-1 may return as transcript.text
WhisperTexts == { <<"u">>, <<" ", "u", "\n">> }
\* what gpt-4o-mini may return as message.content
GptTexts == { <<"q", "\n">> }

\* tts(text): the encoded audio of the given text
tts(text) == <<"mp3">> \o text

\* ---------------------------------------------------------------- state
VARIABLES
  conversations,   \* session_id -> session dict, for the ids in the store
  transcripts,     \* session_id -> lines of transcripts/<session_id>.txt
  lastOp,          \* the last request handled and its response
  nreq,            \* requests handled so far
  nfault,          \* adapter calls that raised so far
  nrefetch,        \* qualitative re-fetches so far
  tasks,           \* the answer() coroutines suspended at `await file.read()`
  overlap          \* the pair of overlapping submissions being followed

vars == <<conversations, transcripts, lastOp, nreq, nfault, nrefetch,
          tasks, overlap>>

\* the coroutines of answer() that can be in flight together
Tasks == {1, 2}

Message(role, content) == [role |-> role, content |-> content]

\* a field that a response does not carry
Absent == <<"<absent>">>
NoConv == [messages |-> <<>>, stage |-> "<none>", qual_count |-> -1,
           math_stage |-> -1]

\* JSONResponse(...) / an unhandled exception (status 500)
Response(status, user, ai, audio, wait, message, error) ==
  [status |-> status, user_transcript |-> user, ai_transcript |-> ai,
   audio |-> audio, wait_time |-> wait, message |-> message, error |-> error]

ServerFault == Response(500, Absent, Absent, Absent, -1, Absent, Absent)

\* a response whose body renders `spoken` through tts(); tts may raise
Spoken(ttsOk, user, ai, spoken, wait) ==
  IF ttsOk THEN Response(200, user, ai, tts(spoken), wait, Absent, Absent)
  ELSE ServerFault

\* ---------------------------------------------------------------- session steps
\* the entry inserted at the front instead of appended
AppendMessage_front(conv, role, content) ==
  [conv EXCEPT !.messages = <<Message(role, content)>> \o @]

\* conv["messages"].append({"role": role, "content": content})
AppendMessage(conv, role, content) ==
  [conv EXCEPT !.messages = Append(@, Message(role, content))]

\* a new session that already counts one exchange
NewSession_counted ==
  [messages |-> << Message("system", SYSTEM_PROMPT),
                   Message("system", <<"CASE:", "\n">> \o INTRO_TEXT) >>,
   stage |-> "intro", qual_count |-> 1, math_stage |-> 0]

\* the dict a first fetch stores for an unseen session_id
NewSession ==
  [messages |-> << Message("system", SYSTEM_PROMPT),
                   Message("system", <<"CASE:", "\n">> \o INTRO_TEXT) >>,
   stage |-> "intro", qual_count |-> 0, math_stage |-> 0]

\* the store rebound to a dict holding only the new session
NewSessionStore_reset(convs, sid) == [s \in {sid} |-> NewSession]

\* conversations[session_id] = {...}
NewSessionStore(convs, sid) ==
  [s \in DOMAIN convs \cup {sid} |-> IF s = sid THEN NewSession ELSE convs[s]]

\* a lookup that hands out a fresh dict for an unknown id
Lookup_default(convs, sid) ==
  IF sid \in DOMAIN convs THEN convs[sid] ELSE NewSession

\* conversations.get(session_id)
Lookup(convs, sid) == IF sid \in DOMAIN convs THEN convs[sid] ELSE NoConv

\* every id bound to one shared session dict
Store_shared(convs, sid, conv) == [s \in DOMAIN convs \cup {sid} |-> conv]

\* the store after the session dict of sid was mutated to conv
Store(convs, sid, conv) ==
  [s \in DOMAIN convs \cup {sid} |-> IF s = sid THEN conv ELSE convs[s]]

intro_and_question == Strip(INTRO_TEXT) \o <<"\n", "\n">> \o FIRST_QUESTION

\* the intro step without the count of the first question
IntroStep_uncounted(conv) ==
  AppendMessage([conv EXCEPT !.stage = "qualitative"],
                "assistant", intro_and_question)

\* get_question, stage "intro"
IntroStep(conv) ==
  [AppendMessage([conv EXCEPT !.stage = "qualitative"],
                 "assistant", intro_and_question)
     EXCEPT !.qual_count = 1]

\* get_question, stage "qualitative", after the completion returned
QualQuestion(conv, question) ==
  [AppendMessage(conv, "assistant", question) EXCEPT !.qual_count = 1]

\* the math branch taken whatever math_stage is
MathFetchEnabled_any(conv) == conv.stage = "math"

\* get_question: `conv["stage"] == "math" and conv["math_stage"] == 0`
MathFetchEnabled(conv) == conv.stage = "math" /\ conv.math_stage = 0

\* get_question, stage "math" with math_stage 0
MathFetch(conv) == [conv EXCEPT !.math_stage = 1]

\* the threshold taken one answer early
QualDone_early(conv) == conv.qual_count >= 4

\* answer, stage "qualitative": the threshold that ends the qualitative part
QualDone(conv) == conv.qual_count >= 5

\* the transition that leaves math_stage as it was
ToMath_nosub(conv) == [conv EXCEPT !.stage = "math"]

\* the transition that jumps over the math stage
ToMath_skip(conv) == [conv EXCEPT !.stage = "done", !.math_stage = 1]

\* answer, stage "qualitative", threshold reached
ToMath(conv) == [conv EXCEPT !.stage = "math", !.math_stage = 1]

\* the follow-up that counts the exchange twice
Followup_twice(conv, followup) ==
  [AppendMessage(conv, "assistant", followup)
     EXCEPT !.qual_count = @ + 2]

\* answer, stage "qualitative", after the completion returned
Followup(conv, followup) ==
  [AppendMessage(conv, "assistant", followup)
     EXCEPT !.qual_count = @ + 1]

followups_text == Join(<<"\n">>, MATH_FOLLOWUP_QUESTIONS)

\* answer, stage "math" with math_stage 1
MathFollowups(conv) ==
  [AppendMessage(conv, "assistant", followups_text)
     EXCEPT !.math_stage = 2, !.stage = "done"]

\* answer, stage "done"
ToClosing(conv) == [conv EXCEPT !.stage = "closing"]

\* the file opened "w": the line replaces what the file held
WriteTranscript_truncate(files, sid, user_text) ==
  [files EXCEPT ![sid] = <<user_text \o <<"\n">>>>]

\* f.write(user_text + "\n") on transcripts/<session_id>.txt, opened "a"
WriteTranscript(files, sid, user_text) ==
  [files EXCEPT ![sid] = Append(@, user_text \o <<"\n">>)]

\* the acknowledgment replaced by the closing message once more
Concluded_again ==
  Response(200, Absent, Strip(CLOSING_MESSAGE), tts(CLOSING_MESSAGE), -1,
           Absent, Absent)

NoQuestion == Response(400, Absent, Absent, Absent, -1, Absent,
                       <<"No question available">>)
InvalidSession == Response(400, Absent, Absent, Absent, -1, Absent,
                           <<"Invalid session">>)
Concluded == Response(200, Absent, Absent, Absent, -1,
                      <<"Interview has concluded.">>, Absent)

\* the result of a handler body: the session afterwards, the response, the
\* message list handed to the chat completion (<<>> when it is not called)
\* and the adapter whose call raised; a fault of a body that went past the
\* completion comes from tts()
Result(conv, resp, prompt) ==
  [conv |-> conv, resp |-> resp, prompt |-> prompt,
   raised |-> IF resp.status = 500 THEN "speech" ELSE "none"]

\* the exchange counted before the completion is called
CompletionRaised_counted(conv, prompt) ==
  [Result([conv EXCEPT !.qual_count = @ + 1], ServerFault, prompt)
     EXCEPT !.raised = "completion"]

\* the completion raised: the handler ends where it stands
CompletionRaised(conv, prompt) ==
  [Result(conv, ServerFault, prompt) EXCEPT !.raised = "completion"]

\* only the latest entry of the history is sent
Prompt_last(conv, directive) ==
  <<conv.messages[Len(conv.messages)], Message("system", directive)>>

\* messages=conv["messages"] + [{"role": "system", "content": directive}]
Prompt(conv, directive) ==
  Append(conv.messages, Message("system", directive))

\* get_question rendering the audio before it touches the session
GetQuestionBody_rollback(conv, gptOut, ttsOk) ==
  IF conv.stage = "intro" THEN
    Result(IF ttsOk THEN IntroStep(conv) ELSE conv,
           Spoken(ttsOk, Absent, intro_and_question, intro_and_question, -1),
           <<>>)
  ELSE IF conv.stage = "qualitative" THEN
    LET prompt == Prompt(conv, FIRST_QUAL_PROMPT)
    IN IF gptOut = Raise THEN CompletionRaised(conv, prompt)
       ELSE LET question == Strip(gptOut)
            IN Result(IF ttsOk THEN QualQuestion(conv, question) ELSE conv,
                      Spoken(ttsOk, Absent, question, question, -1),
                      prompt)
  ELSE IF MathFetchEnabled(conv) THEN
    Result(IF ttsOk THEN MathFetch(conv) ELSE conv,
           Spoken(ttsOk, Absent, Strip(MATH_PROBLEM_TEXT), MATH_PROBLEM_TEXT,
                  MATH_WAIT_SECONDS),
           <<>>)
  ELSE Result(conv, NoQuestion, <<>>)

\* get_question from `conv = conversations[session_id]` on
GetQuestionBody(conv, gptOut, ttsOk) ==
  IF conv.stage = "intro" THEN
    Result(IntroStep(conv),
           Spoken(ttsOk, Absent, intro_and_question, intro_and_question, -1),
           <<>>)
  ELSE IF conv.stage = "qualitative" THEN
    LET prompt == Prompt(conv, FIRST_QUAL_PROMPT)
    IN IF gptOut = Raise THEN CompletionRaised(conv, prompt)
       ELSE LET question == Strip(gptOut)
            IN Result(QualQuestion(conv, question),
                      Spoken(ttsOk, Absent, question, question, -1),
                      prompt)
  ELSE IF MathFetchEnabled(conv) THEN
    Result(MathFetch(conv),
           Spoken(ttsOk, Absent, Strip(MATH_PROBLEM_TEXT), MATH_PROBLEM_TEXT,
                  MATH_WAIT_SECONDS),
           <<>>)
  ELSE Result(conv, NoQuestion, <<>>)

\* answer from `if conv["stage"] == "qualitative"` on; conv already holds
\* the user message
AnswerBody(conv, user_text, gptOut, ttsOk) ==
  IF conv.stage = "qualitative" THEN
    IF QualDone(conv) THEN
      Result(ToMath(conv),
             Spoken(ttsOk, user_text, Strip(MATH_PROBLEM_TEXT),
                    MATH_PROBLEM_TEXT, MATH_WAIT_SECONDS),
             <<>>)
    ELSE
      LET prompt == Prompt(conv, FOLLOWUP_PROMPT)
      IN IF gptOut = Raise THEN CompletionRaised(conv, prompt)
         ELSE LET followup == Strip(gptOut)
              IN Result(Followup(conv, followup),
                        Spoken(ttsOk, user_text, followup, followup, -1),
                        prompt)
  ELSE IF conv.stage = "math" /\ conv.math_stage = 1 THEN
    Result(MathFollowups(conv),
           Spoken(ttsOk, user_text, followups_text, followups_text, -1),
           <<>>)
  ELSE IF conv.stage = "done" THEN
    Result(ToClosing(conv),
           Spoken(ttsOk, user_text, Strip(CLOSING_MESSAGE), CLOSING_MESSAGE, -1),
           <<>>)
  ELSE IF conv.stage = "closing" THEN
    Result(conv, Concluded, <<>>)
  ELSE
    Result(conv,
           Response(200, user_text, Absent, Absent, -1, Absent, Absent),
           <<>>)

\* ---------------------------------------------------------------- requests
Op(op, sid, created, r) ==
  [op |-> op, sid |-> sid, created |-> created, resp |-> r.resp,
   prompt |-> r.prompt, raised |-> r.raised]

\* answer from the transcription on, for the session dict conv: the dict and
\* the transcript files afterwards, and the result
AnswerFrom(conv, files, sid, whisperOut, gptOut, ttsOk) ==
  IF whisperOut = Raise THEN
    [conv |-> conv, files |-> files,
     result |-> [Result(conv, ServerFault, <<>>)
                   EXCEPT !.raised = "transcription"]]
  ELSE
    LET user_text == Strip(whisperOut)
        r == AnswerBody(AppendMessage(conv, "user", user_text),
                        user_text, gptOut, ttsOk)
    IN [conv |-> r.conv,
        files |-> WriteTranscript(files, sid, user_text),
        result |-> r]

Faults(resp) == IF resp.status = 500 THEN 1 ELSE 0

\* a coroutine slot with no request in it
Idle == [pc |-> "idle", sid |-> "", conv |-> NoConv]

\* no pair of overlapping submissions is being followed
NoOverlap ==
  [phase |-> "none", sid |-> "", store |-> <<>>, files |-> <<>>,
   first |-> <<>>, second |-> <<>>]

Init ==
  /\ conversations = [s \in {} |-> NoConv]
  /\ transcripts = [s \in SessionIds |-> <<>>]
  /\ lastOp = Op("none", "", NoConv, Result(NoConv, ServerFault, <<>>))
  /\ nreq = 0
  /\ nfault = 0
  /\ nrefetch = 0
  /\ tasks = [t \in Tasks |-> Idle]
  /\ overlap = NoOverlap

\* GET /question
get_question(sid, gptOut, ttsOk) ==
  LET unseen  == sid \notin DOMAIN conversations
      store   == IF unseen THEN NewSessionStore(conversations, sid)
                 ELSE conversations
      conv    == store[sid]
      r       == GetQuestionBody(conv, gptOut, ttsOk)
      refetch == IF conv.stage = "qualitative" THEN 1 ELSE 0
  IN /\ nreq < MaxRequests
     /\ nfault + Faults(r.resp) <= MaxFaults
     /\ nrefetch + refetch <= MaxRefetch
     /\ conversations' = Store(store, sid, r.conv)
     /\ lastOp' = Op("get_question", sid, IF unseen THEN conv ELSE NoConv, r)
     /\ nreq' = nreq + 1
     /\ nfault' = nfault + Faults(r.resp)
     /\ nrefetch' = nrefetch + refetch
     /\ overlap' = NoOverlap
     /\ UNCHANGED <<transcripts, tasks>>

\* POST /answer
answer(sid, whisperOut, gptOut, ttsOk) ==
  LET conv == Lookup(conversations, sid)
  IN /\ nreq < MaxRequests
     /\ nreq' = nreq + 1
     /\ overlap' = NoOverlap
     /\ UNCHANGED <<nrefetch, tasks>>
     /\ IF conv = NoConv THEN
          /\ lastOp' = Op("answer", sid, NoConv,
                          Result(NoConv, InvalidSession, <<>>))
          /\ UNCHANGED <<conversations, transcripts, nfault>>
        ELSE
          LET a == AnswerFrom(conv, transcripts, sid, whisperOut, gptOut, ttsOk)
          IN /\ nfault + Faults(a.result.resp) <= MaxFaults
             /\ nfault' = nfault + Faults(a.result.resp)
             /\ conversations' = Store(conversations, sid, a.conv)
             /\ transcripts' = a.files
             /\ lastOp' = Op("answer", sid, NoConv, a.result)

Next ==
  \E sid \in SessionIds, gptOut \in GptTexts \cup {Raise}, ttsOk \in BOOLEAN :
    \/ get_question(sid, gptOut, ttsOk)
    \/ \E whisperOut \in WhisperTexts \cup {Raise} :
         answer(sid, whisperOut, gptOut, ttsOk)

Spec == Init /\ [][Next]_vars

\* ---------------------------------------------------------------- overlap
\* answer() is a coroutine on the one event loop of the process.  Its only
\* suspension point is `await file.read()`, after the lookup of the session
\* dict; from there to its return it runs without yielding, the adapter
\* calls being blocking calls of the synchronous clients.

AllIdle == \A t \in Tasks : tasks[t].pc = "idle"

\* the coroutine works on a private copy taken at the lookup
Deref_copy(convs, sid, seen) == seen

\* `conv` is a reference to the stored dict: what the coroutine reads after
\* the await is the dict as it is then, not as it was at the lookup (seen)
Deref(convs, sid, seen) == convs[sid]

\* POST /answer up to `await file.read()`
answer_begin(t, sid) ==
  LET conv == Lookup(conversations, sid)
  IN /\ tasks[t].pc = "idle"
     /\ \A u \in Tasks : u < t => tasks[u].pc # "idle"
     /\ overlap.phase # "first"
     /\ nreq < MaxRequests
     /\ nreq' = nreq + 1
     /\ overlap' = NoOverlap
     /\ UNCHANGED <<conversations, transcripts, nfault, nrefetch>>
     /\ IF conv = NoConv THEN
          /\ lastOp' = Op("answer", sid, NoConv,
                          Result(NoConv, InvalidSession, <<>>))
          /\ UNCHANGED tasks
        ELSE
          /\ tasks' = [tasks EXCEPT ![t] =
                         [pc |-> "awaiting", sid |-> sid, conv |-> conv]]
          /\ UNCHANGED lastOp

\* the adapter outcomes of one submission
Inputs(whisperOut, gptOut, ttsOk) ==
  [whisperOut |-> whisperOut, gptOut |-> gptOut, ttsOk |-> ttsOk]

\* the pair being followed, after task t resumed with the outcomes `in`
Followed(t, in) ==
  LET sid == tasks[t].sid
      other == CHOOSE o \in Tasks : o # t
  IN IF overlap.phase = "first" /\ overlap.sid = sid
     THEN [overlap EXCEPT !.phase = "both", !.second = in]
     ELSE IF tasks[other].pc = "awaiting" /\ tasks[other].sid = sid
     THEN [phase |-> "first", sid |-> sid, store |-> conversations,
           files |-> transcripts, first |-> in, second |-> <<>>]
     ELSE NoOverlap

\* POST /answer from the resumption after `await file.read()` to the return
answer_resume(t, whisperOut, gptOut, ttsOk) ==
  LET sid == tasks[t].sid
      a == AnswerFrom(Deref(conversations, sid, tasks[t].conv), transcripts,
                      sid, whisperOut, gptOut, ttsOk)
  IN /\ tasks[t].pc = "awaiting"
     /\ nfault + Faults(a.result.resp) <= MaxFaults
     /\ nfault' = nfault + Faults(a.result.resp)
     /\ conversations' = Store(conversations, sid, a.conv)
     /\ transcripts' = a.files
     /\ lastOp' = Op("answer", sid, NoConv, a.result)
     /\ tasks' = [tasks EXCEPT ![t] = Idle]
     /\ overlap' = Followed(t, Inputs(whisperOut, gptOut, ttsOk))
     /\ UNCHANGED <<nreq, nrefetch>>

\* the session id whose submissions are let overlap
OverlapIds == {"s1"}

\* submissions may overlap; a fetch is taken while no submission is in flight
NextOverlap ==
  \E sid \in OverlapIds, gptOut \in GptTexts \cup {Raise}, ttsOk \in BOOLEAN :
    \/ AllIdle /\ get_question(sid, gptOut, ttsOk)
    \/ \E t \in Tasks : answer_begin(t, sid)
    \/ \E t \in Tasks, whisperOut \in WhisperTexts \cup {Raise} :
         answer_resume(t, whisperOut, gptOut, ttsOk)

SpecOverlap == Init /\ [][NextOverlap]_vars

\* ---------------------------------------------------------------- typing
Stages == {"intro", "qualitative", "math", "done", "closing"}

TypeOK ==
  /\ DOMAIN conversations \subseteq SessionIds
  /\ \A s \in DOMAIN conversations :
       /\ conversations[s].stage \in Stages
       /\ conversations[s].qual_count \in Nat
       /\ conversations[s].math_stage \in Nat
  /\ nreq \in 0..MaxRequests

\* ---------------------------------------------------------------- properties
\* the request just handled was `op` on session s
Handled(op, s) == lastOp'.op = op /\ lastOp'.sid = s

Known(s) == s \in DOMAIN conversations

Rank(stage) ==
  CASE stage = "intro" -> 0
    [] stage = "qualitative" -> 1
    [] stage = "math" -> 2
    [] stage = "done" -> 3
    [] stage = "closing" -> 4

\* the stage a session had when the request started; for a session the
\* request created, the stage it was created with
StageBefore(s) ==
  IF Known(s) THEN conversations[s].stage ELSE lastOp'.created.stage

StageStep ==
  \A s \in DOMAIN conversations' :
    Rank(conversations'[s].stage) - Rank(StageBefore(s)) \in {0, 1}

\* C1: in the order intro < qualitative < math < done < closing, no request
\* moves a session's stage backwards and none moves it forward by more than
\* one stage.
C1_StageForwardByOne == [][StageStep]_vars

\* a session went through every stage up to closing
C1_Witness ==
  \E s \in DOMAIN conversations :
    /\ conversations[s].stage = "closing"
    /\ lastOp.op = "answer" /\ lastOp.sid = s
    /\ lastOp.resp.ai_transcript = Strip(CLOSING_MESSAGE)

PastQualitative ==
  \A s \in DOMAIN conversations :
    conversations[s].stage \in {"math", "done", "closing"}
      => conversations[s].qual_count = 5

MathOnlyAtFive ==
  \A s \in DOMAIN conversations :
    /\ (Handled("answer", s) /\ conversations[s].qual_count < 5)
         => conversations'[s].stage = conversations[s].stage
    /\ (conversations[s].stage = "qualitative"
          /\ conversations'[s].stage # "qualitative")
         => /\ Handled("answer", s)
            /\ conversations[s].qual_count = 5
            /\ conversations'[s].stage = "math"

\* C2: a session leaves qualitative for math only on an answer submitted at
\* qual_count = 5: past qualitative qual_count is 5, and no answer submitted
\* at qual_count < 5 changes the stage.
C2_MathExactlyAtFive == [](PastQualitative) /\ [][MathOnlyAtFive]_vars

\* an answer moved a session to math after a re-fetch had reset the count
C2_Witness ==
  \E s \in DOMAIN conversations :
    /\ conversations[s].stage = "math"
    /\ lastOp.op = "answer" /\ lastOp.sid = s
    /\ nrefetch = 1

QualAnswer(s) ==
  /\ Known(s)
  /\ Handled("answer", s)
  /\ conversations[s].stage = "qualitative"

\* C3 as stated: every answer submitted in stage qualitative increases
\* qual_count by exactly one.
C3_Original ==
  [][\A s \in SessionIds :
       QualAnswer(s)
         => conversations'[s].qual_count = conversations[s].qual_count + 1]_vars

\* the submission appended the user entry and the generated follow-up
FollowupAppended(s) ==
  Len(conversations'[s].messages) = Len(conversations[s].messages) + 2

\* C3 (amended): an answer submitted in stage qualitative increases
\* qual_count by exactly one when qual_count < 5 and the follow-up was
\* generated; at qual_count >= 5, or when transcription or generation
\* raised, qual_count is unchanged.
C3_CountsFollowups ==
  [][\A s \in SessionIds :
       QualAnswer(s)
         => conversations'[s].qual_count =
              IF conversations[s].qual_count < 5 /\ FollowupAppended(s)
              THEN conversations[s].qual_count + 1
              ELSE conversations[s].qual_count]_vars

\* a follow-up answer was counted
C3_Witness ==
  \E s \in DOMAIN conversations :
    /\ lastOp.op = "answer" /\ lastOp.sid = s
    /\ lastOp.resp.status = 200
    /\ conversations[s].stage = "qualitative"
    /\ conversations[s].qual_count = 3
    /\ lastOp.prompt # <<>>

\* ---- the scripted interview: one fetch for a new id, then answers only
RECURSIVE Repeat(_, _)
Repeat(seq, n) == IF n <= 0 THEN <<>> ELSE seq \o Repeat(seq, n - 1)

IntroQuestionText == <<"I", "\n", "\n", "B">>
ProblemText == <<"M">>
FollowupListText == <<"F1", "\n", "F2">>
ClosingText == <<"C">>
ConcludedText == <<"Interview has concluded.">>
UserEntry == Message("user", <<"u">>)
GeneratedEntry == Message("assistant", <<"q">>)
SeedMessages ==
  << Message("system", <<"S">>),
     Message("system", <<"CASE:", "\n", "\n", "I", "\n">>) >>

Min(a, b) == IF a <= b THEN a ELSE b

\* the session after the first fetch and k answers
ScriptState(k) ==
  [messages |->
     SeedMessages \o <<Message("assistant", IntroQuestionText)>>
       \o Repeat(<<UserEntry, GeneratedEntry>>, Min(k, 4))
       \o (IF k >= 5 THEN <<UserEntry>> ELSE <<>>)
       \o (IF k >= 6
           THEN <<UserEntry, Message("assistant", FollowupListText)>>
           ELSE <<>>)
       \o Repeat(<<UserEntry>>, k - 6),
   stage |-> IF k <= 4 THEN "qualitative"
             ELSE IF k = 5 THEN "math"
             ELSE IF k = 6 THEN "done" ELSE "closing",
   qual_count |-> Min(k + 1, 5),
   math_stage |-> IF k <= 4 THEN 0 ELSE IF k = 5 THEN 1 ELSE 2]

\* the answers a session has recorded: ScriptState(k) has exactly k
Answers(conv) ==
  Cardinality({i \in DOMAIN conv.messages : conv.messages[i].role = "user"})

\* resp is what the script gives to the k-th answer
ScriptResponse(resp, k) ==
  /\ resp.status = 200
  /\ resp.ai_transcript =
       IF k <= 4 THEN <<"q">>
       ELSE IF k = 5 THEN ProblemText
       ELSE IF k = 6 THEN FollowupListText
       ELSE IF k = 7 THEN ClosingText ELSE Absent
  /\ resp.message = IF k >= 8 THEN ConcludedText ELSE Absent
  /\ resp.user_transcript = IF k >= 8 THEN Absent ELSE <<"u">>
  /\ (k <= 4 => lastOp'.prompt # <<>>)
  /\ (k > 4 => lastOp'.prompt = <<>>)

Completed(resp) == resp.status # 500

\* one request of a scripted run: the creating fetch, or the (k+1)-th answer
ScriptStep(s, needCompleted) ==
  /\ (Handled("get_question", s) /\ ~Known(s))
       => /\ conversations'[s] = ScriptState(0)
          /\ Completed(lastOp'.resp)
               => /\ lastOp'.resp.status = 200
                  /\ lastOp'.resp.ai_transcript = IntroQuestionText
  /\ (Known(s) /\ Handled("answer", s)
        /\ conversations[s] = ScriptState(Answers(conversations[s]))
        /\ (needCompleted => Completed(lastOp'.resp)))
       => LET k == Answers(conversations[s])
          IN /\ ScriptResponse(lastOp'.resp, k + 1)
             /\ conversations'[s] = ScriptState(k + 1)

InClosing(s) == Known(s) /\ conversations[s].stage = "closing"

\* C5 as stated: in stage closing every answer returns 'Interview has
\* concluded.' and the stage stays closing, also across fetches.
C5_Original ==
  [][\A s \in SessionIds :
       InClosing(s)
         => /\ conversations'[s].stage = "closing"
            /\ Handled("answer", s)
                 => /\ lastOp'.resp.status = 200
                    /\ lastOp'.resp.message = ConcludedText]_vars

\* C5 (amended): in stage closing the stage stays closing across every
\* request; an answer whose transcription succeeds returns 'Interview has
\* concluded.' with no question text, one whose transcription raises is a
\* server fault that leaves the session and its transcript file as they
\* were; a fetch leaves the session as it was.
C5_ClosingTerminal ==
  [][\A s \in SessionIds :
       InClosing(s)
         => /\ conversations'[s].stage = "closing"
            /\ conversations'[s].qual_count = conversations[s].qual_count
            /\ conversations'[s].math_stage = conversations[s].math_stage
            /\ Handled("answer", s)
                 => \/ /\ lastOp'.resp.status = 200
                       /\ lastOp'.resp.message = ConcludedText
                       /\ lastOp'.resp.ai_transcript = Absent
                       /\ lastOp'.resp.audio = Absent
                    \/ /\ lastOp'.resp.status = 500
                       /\ conversations'[s] = conversations[s]
                       /\ transcripts'[s] = transcripts[s]
            /\ Handled("get_question", s)
                 => conversations'[s] = conversations[s]]_vars

\* a second answer in stage closing was acknowledged
C5_Witness ==
  \E s \in DOMAIN conversations :
    /\ conversations[s].stage = "closing"
    /\ lastOp.op = "answer" /\ lastOp.sid = s
    /\ lastOp.resp.message = ConcludedText
    /\ Len(transcripts[s]) = 9

Others(s) == DOMAIN conversations \ {s}

CreationStep ==
  \A s \in SessionIds :
    /\ (Handled("get_question", s) /\ ~Known(s))
         => /\ DOMAIN conversations' = DOMAIN conversations \cup {s}
            /\ Cardinality(DOMAIN conversations') =
                 Cardinality(DOMAIN conversations) + 1
            /\ \A o \in Others(s) : conversations'[o] = conversations[o]
            /\ lastOp'.created.stage = "intro"
            /\ lastOp'.created.qual_count = 0
            /\ lastOp'.created.math_stage = 0
            /\ lastOp'.created.messages = SeedMessages
            /\ SubSeq(conversations'[s].messages, 1, 2) = SeedMessages
    /\ (Handled("get_question", s) /\ Known(s))
         => /\ DOMAIN conversations' = DOMAIN conversations
            /\ lastOp'.created = NoConv
    /\ Handled("answer", s)
         => /\ DOMAIN conversations' = DOMAIN conversations
            /\ lastOp'.created = NoConv

\* C6: the first fetch for an unseen id creates exactly one session, with
\* stage intro, qual_count 0, math_stage 0 and the two seeded system
\* messages; a fetch for a known id and an answer create nothing.
C6_LazyCreation == [][CreationStep]_vars

\* a second session was created next to an existing one
C6_Witness ==
  /\ lastOp.op = "get_question"
  /\ lastOp.created # NoConv
  /\ Cardinality(DOMAIN conversations) = 2

\* C7: an answer for an id that is not in the store returns a client error
\* and changes no session, creates none and writes no transcript line.
C7_UnknownSessionRejected ==
  [][\A s \in SessionIds :
       (Handled("answer", s) /\ ~Known(s))
         => /\ lastOp'.resp.status = 400
            /\ lastOp'.resp.error = <<"Invalid session">>
            /\ conversations' = conversations
            /\ transcripts' = transcripts]_vars

\* an answer for an unknown id was rejected while another session existed
C7_Witness ==
  /\ lastOp.op = "answer"
  /\ lastOp.sid \notin DOMAIN conversations
  /\ lastOp.resp.status = 400
  /\ DOMAIN conversations # {}

NoFetchTransition(conv) ==
  \/ conv.stage = "math" /\ conv.math_stage # 0
  \/ conv.stage = "done"
  \/ conv.stage = "closing"

\* C8: a fetch on a session in stage math with math_stage # 0, in stage
\* done or in stage closing returns a client error and leaves the session
\* unchanged.
C8_NoQuestionAvailable ==
  [][\A s \in SessionIds :
       (Known(s) /\ Handled("get_question", s)
          /\ NoFetchTransition(conversations[s]))
         => /\ lastOp'.resp.status = 400
            /\ lastOp'.resp.error = <<"No question available">>
            /\ conversations'[s] = conversations[s]]_vars

\* a fetch in stage math was rejected
C8_Witness ==
  \E s \in DOMAIN conversations :
    /\ lastOp.op = "get_question" /\ lastOp.sid = s
    /\ lastOp.resp.status = 400
    /\ conversations[s].stage = "math"
    /\ conversations[s].math_stage = 1

IsPrefix(a, b) == Len(a) <= Len(b) /\ SubSeq(b, 1, Len(a)) = a

\* C9: across every request, the messages a session held before are a
\* prefix of the messages it holds afterwards.
C9_MessagesAppendOnly ==
  [][\A s \in DOMAIN conversations :
       /\ s \in DOMAIN conversations'
       /\ IsPrefix(conversations[s].messages,
                   conversations'[s].messages)]_vars

\* an answer appended a user entry and a follow-up to a longer history
C9_Witness ==
  \E s \in DOMAIN conversations :
    /\ lastOp.op = "answer" /\ lastOp.sid = s
    /\ Len(conversations[s].messages) = 7
    /\ conversations[s].messages[6].role = "user"
    /\ conversations[s].messages[7].role = "assistant"

\* C10: the set of stored session ids only grows, and a request for a
\* stored id neither creates a session nor is rejected as unknown.
C10_SessionsNeverDeleted ==
  [][/\ DOMAIN conversations \subseteq DOMAIN conversations'
     /\ Known(lastOp'.sid)
          => /\ lastOp'.created = NoConv
             /\ lastOp'.resp.error # <<"Invalid session">>]_vars

\* a second session was created and the first is still served
C10_Witness ==
  /\ DOMAIN conversations = SessionIds
  /\ lastOp.op = "answer"
  /\ lastOp.resp.status = 200
  /\ \A s \in SessionIds : Len(conversations[s].messages) >= 4

QualFetch(s) ==
  /\ Known(s)
  /\ Handled("get_question", s)
  /\ conversations[s].stage = "qualitative"

\* C12: a question fetch on a session in stage qualitative leaves the stage
\* qualitative and changes neither qual_count nor math_stage.
C12_RefetchStateless ==
  [][\A s \in SessionIds :
       QualFetch(s)
         => /\ conversations'[s].stage = "qualitative"
            /\ conversations'[s].qual_count = conversations[s].qual_count
            /\ conversations'[s].math_stage = conversations[s].math_stage]_vars

\* the request added exactly one line to the transcript file of s and exactly
\* one user entry, of the same text, at the end of what its messages held
RecordedOnce(s) ==
  LET old == conversations[s].messages
      new == conversations'[s].messages
  IN /\ Len(transcripts'[s]) = Len(transcripts[s]) + 1
     /\ SubSeq(transcripts'[s], 1, Len(transcripts[s])) = transcripts[s]
     /\ Answers(conversations'[s]) = Answers(conversations[s]) + 1
     /\ Len(new) > Len(old)
     /\ new[Len(old) + 1].role = "user"
     /\ transcripts'[s][Len(transcripts'[s])] =
          new[Len(old) + 1].content \o <<"\n">>

TranscriptsKept ==
  \A s \in SessionIds : IsPrefix(transcripts[s], transcripts'[s])

\* C13 as stated: every answer for a known session, in every stage, adds
\* exactly one transcript line and one user entry, and no request removes or
\* rewrites a transcript line.
C13_Original ==
  [][/\ \A s \in SessionIds :
          (Known(s) /\ Handled("answer", s)) => RecordedOnce(s)
     /\ TranscriptsKept]_vars

\* C13 (amended): every answer for a known session whose transcription
\* succeeds, in every stage, adds exactly one transcript line and one user
\* entry; one whose transcription raises adds neither; no request removes or
\* rewrites a transcript line.
C13_TranscriptRecordedOnce ==
  [][/\ \A s \in SessionIds :
          (Known(s) /\ Handled("answer", s))
            => IF lastOp'.raised = "transcription"
               THEN /\ transcripts'[s] = transcripts[s]
                    /\ conversations'[s] = conversations[s]
               ELSE RecordedOnce(s)
     /\ TranscriptsKept]_vars

\* an answer in stage closing was recorded after eight earlier ones
C13_Witness ==
  \E s \in DOMAIN conversations :
    /\ lastOp.op = "answer" /\ lastOp.sid = s
    /\ lastOp.resp.message = ConcludedText
    /\ Len(transcripts[s]) = 9
    /\ Answers(conversations[s]) = 9
    /\ transcripts[s][9] = <<"u", "\n">>

\* the history of s at the moment the completion of the request is called
HistoryAtCall(s) ==
  IF lastOp'.op = "answer"
  THEN Append(conversations[s].messages, UserEntry)
  ELSE conversations[s].messages

DirectiveEntry ==
  Message("system",
          IF lastOp'.op = "answer" THEN <<"\n", "P2", "\n">>
          ELSE <<"\n", "P1", "\n">>)

GeneratedStep ==
  \A s \in SessionIds :
    /\ ((QualFetch(s) \/ (QualAnswer(s) /\ conversations[s].qual_count < 5))
          /\ lastOp'.raised # "transcription")
         => lastOp'.prompt # <<>>
    /\ (Known(s) /\ lastOp'.sid = s /\ lastOp'.prompt # <<>>)
         => /\ lastOp'.prompt = Append(HistoryAtCall(s), DirectiveEntry)
            /\ IF lastOp'.raised = "completion"
               THEN conversations'[s].messages = HistoryAtCall(s)
               ELSE /\ conversations'[s].messages =
                         Append(HistoryAtCall(s), GeneratedEntry)
                    /\ lastOp'.resp.status = 200
                         => lastOp'.resp.ai_transcript = GeneratedEntry.content

\* C14: a generated question (qualitative fetch, qualitative follow-up) is
\* generated from the session's whole message history at that moment, which
\* for a follow-up ends with the user entry just submitted, and the generated
\* text is appended to the history as exactly one assistant entry.
C14_GeneratedFromFullHistory == [][GeneratedStep]_vars

\* a second follow-up was generated from the seven entries before it
C14_Witness ==
  \E s \in DOMAIN conversations :
    /\ lastOp.op = "answer" /\ lastOp.sid = s
    /\ lastOp.resp.status = 200
    /\ Len(lastOp.prompt) = 7
    /\ lastOp.prompt[6] = UserEntry
    /\ conversations[s].messages[7] = GeneratedEntry

BetweenRequests(conv) ==
  \/ conv.stage = "qualitative" /\ conv.qual_count \in 1..5
       /\ conv.math_stage = 0
  \/ conv.stage = "math" /\ conv.qual_count = 5 /\ conv.math_stage = 1
  \/ conv.stage = "done" /\ conv.qual_count = 5 /\ conv.math_stage = 2
  \/ conv.stage = "closing" /\ conv.qual_count = 5 /\ conv.math_stage = 2

\* C15: with requests handled one at a time, between requests every session
\* is in (qualitative, 1..5, 0), (math, 5, 1), (done, 5, 2) or
\* (closing, 5, 2); math_stage stays in {0, 1, 2}, qual_count never exceeds
\* 5 and stage math with math_stage 0 is never reached.
C15_StatesBetweenRequests ==
  \A s \in DOMAIN conversations :
    /\ BetweenRequests(conversations[s])
    /\ conversations[s].math_stage \in {0, 1, 2}
    /\ conversations[s].qual_count <= 5
    /\ ~(conversations[s].stage = "math" /\ conversations[s].math_stage = 0)

\* one session is past the math stage while another is still qualitative
C15_Witness ==
  \E s, t \in DOMAIN conversations :
    /\ conversations[s].stage = "done"
    /\ conversations[t].stage = "qualitative"
    /\ conversations[t].qual_count = 2

\* C16: a request for session id A leaves the stage, qual_count, math_stage,
\* messages and transcript file of every other id B as they were, and does
\* not create B.
C16_SessionsIsolated ==
  [][\A b \in SessionIds \ {lastOp'.sid} :
       /\ Known(b) => (b \in DOMAIN conversations'
                         /\ conversations'[b] = conversations[b])
       /\ ~Known(b) => b \notin DOMAIN conversations'
       /\ transcripts'[b] = transcripts[b]]_vars

\* an answer for one session was handled while another held a transcript
C16_Witness ==
  \E a, b \in DOMAIN conversations :
    /\ a # b
    /\ lastOp.op = "answer" /\ lastOp.sid = a /\ lastOp.resp.status = 200
    /\ Len(transcripts[a]) = 1
    /\ Len(transcripts[b]) = 2
    /\ conversations[b].qual_count = 3

SameProgress(s) ==
  /\ conversations'[s].stage = conversations[s].stage
  /\ conversations'[s].qual_count = conversations[s].qual_count
  /\ conversations'[s].math_stage = conversations[s].math_stage

\* C17: when the transcription call of an answer raises, the session and its
\* transcript file are left as they were; when the completion call of a
\* fetch or an answer raises, stage, qual_count and math_stage are left as
\* they were.  Both requests end in a server fault.
C17_AdapterFaultKeepsProgress ==
  [][\A s \in SessionIds :
       (Known(s) /\ lastOp'.sid = s)
         => /\ lastOp'.raised = "transcription"
                 => /\ lastOp'.op = "answer"
                    /\ lastOp'.resp.status = 500
                    /\ conversations'[s] = conversations[s]
                    /\ transcripts'[s] = transcripts[s]
            /\ lastOp'.raised = "completion"
                 => /\ lastOp'.resp.status = 500
                    /\ SameProgress(s)]_vars

\* the completion of a follow-up raised after the answer had been recorded
C17_Witness ==
  \E s \in DOMAIN conversations :
    /\ lastOp.op = "answer" /\ lastOp.sid = s
    /\ lastOp.raised = "completion"
    /\ conversations[s].qual_count = 2
    /\ Len(conversations[s].messages) = 6
    /\ conversations[s].messages[6] = UserEntry
    /\ Len(transcripts[s]) = 2

\* the transition of the request is applied although its speech call raised
TransitionKept(s) ==
  /\ (lastOp'.op = "get_question" /\ ~Known(s))
       => /\ conversations'[s].stage = "qualitative"
          /\ conversations'[s].qual_count = 1
          /\ conversations'[s].messages =
               SeedMessages \o <<Message("assistant", IntroQuestionText)>>
  /\ (lastOp'.op = "answer" /\ Known(s))
       => /\ (conversations[s].stage = "qualitative"
                /\ conversations[s].qual_count >= 5)
               => /\ conversations'[s].stage = "math"
                  /\ conversations'[s].math_stage = 1
          /\ conversations[s].stage = "math"
               => /\ conversations'[s].stage = "done"
                  /\ conversations'[s].math_stage = 2
          /\ conversations[s].stage = "done"
               => conversations'[s].stage = "closing"

\* each fixed text is delivered only by the request that leaves the stage
\* before it, and no request moves a session back to that stage
DeliveredOnlyOnTransition(s) ==
  /\ lastOp'.resp.ai_transcript = IntroQuestionText => ~Known(s)
  /\ lastOp'.resp.ai_transcript = ProblemText
       => Known(s) /\ conversations[s].stage = "qualitative"
  /\ lastOp'.resp.ai_transcript = FollowupListText
       => Known(s) /\ conversations[s].stage = "math"
  /\ lastOp'.resp.ai_transcript = ClosingText
       => Known(s) /\ conversations[s].stage = "done"
  /\ Known(s)
       => Rank(conversations'[s].stage) >= Rank(conversations[s].stage)

\* C18: when the speech call raises in a request that performs a transition
\* (intro fetch, qualitative to math, math to done, done to closing), the
\* request ends in a server fault with the transition applied, so the next
\* submission continues from the advanced stage; the text of the faulted
\* step is not delivered by any later request.
C18_SpeechFaultKeepsTransition ==
  [][\A s \in SessionIds :
       lastOp'.sid = s
         => /\ lastOp'.raised = "speech"
                 => /\ lastOp'.resp.status = 500
                    /\ lastOp'.resp.ai_transcript = Absent
                    /\ TransitionKept(s)
            /\ DeliveredOnlyOnTransition(s)]_vars

\* the speech call of the answer that moves to math raised
C18_Witness ==
  \E s \in DOMAIN conversations :
    /\ lastOp.op = "answer" /\ lastOp.sid = s
    /\ lastOp.raised = "speech"
    /\ conversations[s].stage = "math"
    /\ conversations[s].math_stage = 1

\* the session and transcript file of sid after the submissions with the
\* outcomes a and b were handled one at a time, a first
OneAtATime(store, files, sid, a, b) ==
  LET ra == AnswerFrom(store[sid], files, sid,
                       a.whisperOut, a.gptOut, a.ttsOk)
      rb == AnswerFrom(ra.conv, ra.files, sid,
                       b.whisperOut, b.gptOut, b.ttsOk)
  IN [conv |-> rb.conv, file |-> rb.files[sid]]

OverlapOutcome ==
  [conv |-> conversations[overlap.sid], file |-> transcripts[overlap.sid]]

Serial ==
  OverlapOutcome \in
    { OneAtATime(overlap.store, overlap.files, overlap.sid,
                 overlap.first, overlap.second),
      OneAtATime(overlap.store, overlap.files, overlap.sid,
                 overlap.second, overlap.first) }

====
